---- MODULE Spec2Model ----
(***************************************************************************)
(* Model of parsers/fiidb.go: FIIStore, a thin data-access layer over the  *)
(* table fii_details (cnpj, acronym, trading_code).                        *)
(*                                                                         *)
(* Strings are sequences of characters.  A character is a short token; the *)
(* token "Ccedil" stands for a non-ASCII letter that takes two bytes in    *)
(* UTF-8, so that Go's len() (bytes) and the character count can differ.   *)
(*                                                                         *)
(* The storage engine is taken to be reliable: its only errors are those   *)
(* the state decides (no such table, no rows).                             *)
(***************************************************************************)
EXTENDS Integers, Sequences, FiniteSets, TLC

VARIABLES db, hasTbl, rows, last, pc, stream, sawTable, result

vars == <<db, hasTbl, rows, last, pc, stream, sawTable, result>>

(***************************************************************************)
(* Bounds                                                                  *)
(***************************************************************************)
\* number of distinct non-empty CNPJ values the payloads carry
NumCNPJ == 2
\* number of concurrent callers of StoreFIIDetails in SpecConc
NumProcs == 2

Procs == 1..NumProcs

(***************************************************************************)
(* Strings                                                                 *)
(***************************************************************************)
Digits == <<"1", "2", "3", "4", "5", "6", "7", "8", "9">>

Empty == <<>>

\* bytes one character takes in UTF-8
Width(c) == IF c = "Ccedil" THEN 2 ELSE 1

RECURSIVE ByteLen(_)
\* Go's len(s): the number of bytes of s
ByteLen(s) == IF s = <<>> THEN 0 ELSE Width(Head(s)) + ByteLen(Tail(s))

IsSpace(c) == c = " "

RECURSIVE TrimLeft(_)
TrimLeft(s) == IF s # <<>> /\ IsSpace(Head(s)) THEN TrimLeft(Tail(s)) ELSE s

RECURSIVE TrimRight(_)
TrimRight(s) ==
  IF s # <<>> /\ IsSpace(s[Len(s)]) THEN TrimRight(SubSeq(s, 1, Len(s) - 1)) ELSE s

\* strings.TrimSpace
TrimSpace(s) == TrimRight(TrimLeft(s))

(***************************************************************************)
(* Errors                                                                  *)
(***************************************************************************)
ErrNil == [kind |-> "nil", arg |-> Empty]

ErrDBUnset == [kind |-> "database not set", arg |-> Empty]

ErrUnmarshal == [kind |-> "json unmarshal", arg |-> Empty]

ErrWrongCNPJ(c) == [kind |-> "wrong CNPJ", arg |-> c]

ErrInvalidCode(code) == [kind |-> "invalid code", arg |-> code]

\* database/sql: sql.ErrNoRows
ErrNoRows == [kind |-> "sql: no rows in result set", arg |-> Empty]

\* the engine's error for a statement against a table that does not exist
ErrNoSuchTable == [kind |-> "no such table", arg |-> Empty]

(***************************************************************************)
(* Inputs                                                                  *)
(***************************************************************************)
ABCD == <<"A", "B", "C", "D">>

ABCE == <<"A", "B", "C", "E">>

ABCF == <<"A", "B", "C", "F">>

ABCD11 == <<"A", "B", "C", "D", "1", "1">>

ABCE11 == <<"A", "B", "C", "E", "1", "1">>

ABCF11 == <<"A", "B", "C", "F", "1", "1">>

\* four characters, five bytes
ABcD == <<"A", "B", "Ccedil", "D">>

\* five bytes
ABCD1 == <<"A", "B", "C", "D", "1">>

Padded(s) == <<" ">> \o s \o <<" ">>

\* the cnpj field as it arrives: missing, blank, plain or padded
RawCNPJs ==
  {Empty, <<" ", " ">>}
    \cup {<<Digits[k]>> : k \in 1..NumCNPJ}
    \cup {Padded(<<Digits[k]>>) : k \in 1..NumCNPJ}

\* the (acronym, tradingCode) fields as they arrive
RawCodes ==
  { <<ABCD, ABCD11>>,
    <<Padded(ABCD), ABCE11>>,
    <<ABCE, Padded(ABCD11)>>,
    <<ABCD11, ABCD>>,
    <<ABcD, ABCF11>>,
    <<Empty, Empty>> }

\* a payload that json.Unmarshal rejects
Malformed == [wellFormed |-> FALSE, cnpj |-> Empty, acronym |-> Empty, tradingCode |-> Empty]

Streams ==
  {Malformed}
    \cup {[wellFormed |-> TRUE, cnpj |-> c, acronym |-> ac[1], tradingCode |-> ac[2]] :
            c \in RawCNPJs, ac \in RawCodes}

\* lookup codes: stored and unknown ones, of valid and invalid length
Codes == {ABCD, ABCE, ABCF, ABCD11, ABCE11, ABCF11, ABcD, ABCD1, Empty, Padded(ABCD)}

\* payloads of the concurrent callers
ConcStreams ==
  {Malformed}
    \cup {[wellFormed |-> TRUE, cnpj |-> c, acronym |-> ac[1], tradingCode |-> ac[2]] :
            c \in {Empty, <<"1">>, Padded(<<"1">>), <<"2">>},
            ac \in {<<ABCD, ABCD11>>, <<Padded(ABCE), ABCE11>>}}

(***************************************************************************)
(* The storage engine                                                      *)
(***************************************************************************)
\* a row of fii_details
Row(f) == [cnpj |-> f.CNPJ, acronym |-> f.Acronym, trading_code |-> f.TradingCode]

\* hasTable(db, "fii_details")
hasTable(exists) == exists

\* createTable(db, "fii_details"): creates the table if it is not there yet
createTable(exists) == [err |-> ErrNil, exists |-> TRUE]

\* the uniqueness constraint of the table: rows of t that conflict with row
Conflicts(t, row) == {i \in DOMAIN t : t[i].cnpj = row.cnpj}

\* INSERT (no OR IGNORE): a conflicting row is a constraint error
InsertOrFail(exists, t, row) ==
  IF ~exists THEN [err |-> ErrNoSuchTable, rows |-> t]
  ELSE IF Conflicts(t, row) # {}
    THEN [err |-> [kind |-> "UNIQUE constraint failed", arg |-> row.cnpj], rows |-> t]
    ELSE [err |-> ErrNil, rows |-> Append(t, row)]

\* INSERT OR REPLACE: a conflicting row is overwritten
InsertOrReplace(exists, t, row) ==
  IF ~exists THEN [err |-> ErrNoSuchTable, rows |-> t]
  ELSE [err |-> ErrNil,
        rows |-> Append(SelectSeq(t, LAMBDA r : r.cnpj # row.cnpj), row)]

\* INSERT that bypasses the constraint
InsertAlways(exists, t, row) ==
  IF ~exists THEN [err |-> ErrNoSuchTable, rows |-> t]
  ELSE [err |-> ErrNil, rows |-> Append(t, row)]

\* db.Exec("INSERT OR IGNORE INTO fii_details (cnpj, acronym, trading_code) ...")
InsertOrIgnore(exists, t, row) ==
  IF ~exists THEN [err |-> ErrNoSuchTable, rows |-> t]
  ELSE IF Conflicts(t, row) # {}
    THEN [err |-> ErrNil, rows |-> t]
    ELSE [err |-> ErrNil, rows |-> Append(t, row)]

Column(r, col) == IF col = "acronym" THEN r.acronym ELSE r.trading_code

\* the rows a SELECT ... WHERE col=? yields (text compares byte for byte)
Matches(t, col, code) == {i \in DOMAIN t : Column(t[i], col) = code}

\* db.QueryRow(query, code) followed by row.Scan: the outcomes the engine can
\* produce.  The query has no ORDER BY, so any matching row may come first.
QueryRow(exists, t, col, code) ==
  IF ~exists THEN {[err |-> ErrNoSuchTable, row |-> <<>>]}
  ELSE IF Matches(t, col, code) = {} THEN {[err |-> ErrNoRows, row |-> <<>>]}
  ELSE {[err |-> ErrNil, row |-> <<t[i]>>] : i \in Matches(t, col, code)}

(***************************************************************************)
(* FIIStore                                                                *)
(***************************************************************************)
ZeroFII == [CNPJ |-> Empty, Acronym |-> Empty, TradingCode |-> Empty]

\* json.Unmarshal(stream, &fiiDetails): the three fields that are used; a
\* field the payload lacks is left empty
Unmarshal(s) ==
  IF s.wellFormed
    THEN [err |-> ErrNil,
          fii |-> [CNPJ |-> s.cnpj, Acronym |-> s.acronym, TradingCode |-> s.tradingCode]]
    ELSE [err |-> ErrUnmarshal, fii |-> ZeroFII]

\* trimFIIDetails that forgets the CNPJ
trimOnlyCodes(f) ==
  [CNPJ |-> f.CNPJ, Acronym |-> TrimSpace(f.Acronym), TradingCode |-> TrimSpace(f.TradingCode)]

trimFIIDetails(f) ==
  [CNPJ |-> TrimSpace(f.CNPJ),
   Acronym |-> TrimSpace(f.Acronym),
   TradingCode |-> TrimSpace(f.TradingCode)]

\* StoreFIIDetails from json.Unmarshal on: parse, trim, validate, insert
StoreTail(exists, t, s) ==
  LET u == Unmarshal(s) IN
  IF u.err # ErrNil THEN [err |-> u.err, rows |-> t, io |-> <<>>]
  ELSE LET x == trimFIIDetails(u.fii) IN
    IF x.CNPJ = Empty THEN [err |-> ErrWrongCNPJ(x.CNPJ), rows |-> t, io |-> <<>>]
    ELSE LET r == InsertOrIgnore(exists, t, Row(x)) IN
      [err |-> r.err, rows |-> r.rows, io |-> <<"exec">>]

\* StoreFIIDetails that parses and validates before it looks at the table
StoreValidateFirst(dbh, exists, t, s) ==
  IF dbh = "nil" THEN [err |-> ErrDBUnset, hasTbl |-> exists, rows |-> t, io |-> <<>>]
  ELSE LET u == Unmarshal(s)
           x == trimFIIDetails(u.fii) IN
    IF u.err # ErrNil THEN [err |-> u.err, hasTbl |-> exists, rows |-> t, io |-> <<>>]
    ELSE IF x.CNPJ = Empty
      THEN [err |-> ErrWrongCNPJ(x.CNPJ), hasTbl |-> exists, rows |-> t, io |-> <<>>]
    ELSE LET c == IF hasTable(exists) THEN [err |-> ErrNil, exists |-> exists]
                  ELSE createTable(exists)
             r == InsertOrIgnore(c.exists, t, Row(x)) IN
      [err |-> r.err, hasTbl |-> c.exists, rows |-> r.rows,
       io |-> (IF hasTable(exists) THEN <<"hasTable">> ELSE <<"hasTable", "createTable">>)
                \o <<"exec">>]

\* StoreFIIDetails(stream): the error returned, the store afterwards and the
\* calls made on the handle
StoreFIIDetails(dbh, exists, t, s) ==
  IF dbh = "nil" THEN [err |-> ErrDBUnset, hasTbl |-> exists, rows |-> t, io |-> <<>>]
  ELSE LET found == hasTable(exists)
           c == IF found THEN [err |-> ErrNil, exists |-> exists] ELSE createTable(exists)
           io1 == IF found THEN <<"hasTable">> ELSE <<"hasTable", "createTable">> IN
    IF c.err # ErrNil THEN [err |-> c.err, hasTbl |-> c.exists, rows |-> t, io |-> io1]
    ELSE LET tl == StoreTail(c.exists, t, s) IN
      [err |-> tl.err, hasTbl |-> c.exists, rows |-> tl.rows, io |-> io1 \o tl.io]

\* CNPJ's dispatch with the two columns exchanged
CNPJQuerySwapped(code) ==
  IF ByteLen(code) = 4 THEN "trading_code"
  ELSE IF ByteLen(code) = 6 THEN "acronym"
  ELSE "invalid"

\* the column CNPJ queries for code, by len(code)
CNPJQuery(code) ==
  IF ByteLen(code) = 4 THEN "acronym"
  ELSE IF ByteLen(code) = 6 THEN "trading_code"
  ELSE "invalid"

\* SelectFIIDetails' dispatch that lets every code but a 4-byte one through
\* as a trading code
SelectQueryLoose(code) ==
  IF ByteLen(code) = 4 THEN "acronym" ELSE "trading_code"

\* the column SelectFIIDetails queries for code, by len(code)
SelectQuery(code) ==
  IF ByteLen(code) = 4 THEN "acronym"
  ELSE IF ByteLen(code) = 6 THEN "trading_code"
  ELSE "invalid"

\* CNPJ that checks the code before the handle
CNPJCodeFirst(dbh, exists, t, code) ==
  IF CNPJQuery(code) = "invalid"
    THEN {[cnpj |-> Empty, err |-> ErrInvalidCode(code), io |-> <<>>]}
  ELSE IF dbh = "nil" THEN {[cnpj |-> Empty, err |-> ErrDBUnset, io |-> <<>>]}
  ELSE {[cnpj |-> IF q.err = ErrNil THEN q.row[1].cnpj ELSE Empty,
         err |-> IF q.err = ErrNil \/ q.err = ErrNoRows THEN ErrNil ELSE q.err,
         io |-> <<"query">>] : q \in QueryRow(exists, t, CNPJQuery(code), code)}

\* CNPJ that passes sql.ErrNoRows on
CNPJNoRowsIsError(dbh, exists, t, code) ==
  IF dbh = "nil" THEN {[cnpj |-> Empty, err |-> ErrDBUnset, io |-> <<>>]}
  ELSE IF CNPJQuery(code) = "invalid"
    THEN {[cnpj |-> Empty, err |-> ErrInvalidCode(code), io |-> <<>>]}
  ELSE {[cnpj |-> IF q.err = ErrNil THEN q.row[1].cnpj ELSE Empty,
         err |-> q.err,
         io |-> <<"query">>] : q \in QueryRow(exists, t, CNPJQuery(code), code)}

\* CNPJ(code): the outcomes (cnpj, err) and the calls made on the handle
CNPJ(dbh, exists, t, code) ==
  IF dbh = "nil" THEN {[cnpj |-> Empty, err |-> ErrDBUnset, io |-> <<>>]}
  ELSE IF CNPJQuery(code) = "invalid"
    THEN {[cnpj |-> Empty, err |-> ErrInvalidCode(code), io |-> <<>>]}
  ELSE {[cnpj |-> IF q.err = ErrNil THEN q.row[1].cnpj ELSE Empty,
         err |-> IF q.err = ErrNil \/ q.err = ErrNoRows THEN ErrNil ELSE q.err,
         io |-> <<"query">>] : q \in QueryRow(exists, t, CNPJQuery(code), code)}

\* SelectFIIDetails that creates the table when it is missing
SelectEnsureTable(dbh, exists, t, code) ==
  IF dbh = "nil" THEN {[fii |-> <<>>, err |-> ErrDBUnset, hasTbl |-> exists, io |-> <<>>]}
  ELSE IF SelectQuery(code) = "invalid"
    THEN {[fii |-> <<>>, err |-> ErrInvalidCode(code), hasTbl |-> exists, io |-> <<>>]}
  ELSE {[fii |-> IF q.err = ErrNil
                   THEN <<[CNPJ |-> q.row[1].cnpj, Acronym |-> q.row[1].acronym,
                           TradingCode |-> q.row[1].trading_code]>>
                   ELSE <<>>,
         err |-> q.err,
         hasTbl |-> TRUE,
         io |-> <<"createTable", "query">>] : q \in QueryRow(TRUE, t, SelectQuery(code), code)}

\* SelectFIIDetails(code): the outcomes (*FIIDetails, err); fii is <<>> for
\* nil and <<f>> for a pointer to f
SelectFIIDetails(dbh, exists, t, code) ==
  IF dbh = "nil" THEN {[fii |-> <<>>, err |-> ErrDBUnset, hasTbl |-> exists, io |-> <<>>]}
  ELSE IF SelectQuery(code) = "invalid"
    THEN {[fii |-> <<>>, err |-> ErrInvalidCode(code), hasTbl |-> exists, io |-> <<>>]}
  ELSE {[fii |-> IF q.err = ErrNil
                   THEN <<[CNPJ |-> q.row[1].cnpj, Acronym |-> q.row[1].acronym,
                           TradingCode |-> q.row[1].trading_code]>>
                   ELSE <<>>,
         err |-> q.err,
         hasTbl |-> exists,
         io |-> <<"query">>] : q \in QueryRow(exists, t, SelectQuery(code), code)}

(***************************************************************************)
(* Sequential use: each call is one step.  last describes the latest call: *)
(* its arguments, what it returned, the calls it made on the handle and    *)
(* the store as it was before the call.                                    *)
(***************************************************************************)
NoCall ==
  [op |-> "none", stream |-> Malformed, code |-> Empty, err |-> ErrNil, cnpj |-> Empty,
   fii |-> <<>>, io |-> <<>>, before |-> [hasTbl |-> FALSE, rows |-> <<>>]]

\* NewFIIStore(db): the handle may be nil; nothing else happens
Init ==
  /\ db \in {"nil", "set"}
  /\ hasTbl = FALSE
  /\ rows = <<>>
  /\ last = NoCall
  /\ pc = [p \in Procs |-> "idle"]
  /\ stream = [p \in Procs |-> Malformed]
  /\ sawTable = [p \in Procs |-> FALSE]
  /\ result = [p \in Procs |-> ErrNil]

CallStoreFIIDetails(s) ==
  LET r == StoreFIIDetails(db, hasTbl, rows, s) IN
  /\ hasTbl' = r.hasTbl
  /\ rows' = r.rows
  /\ last' = [op |-> "StoreFIIDetails", stream |-> s, code |-> Empty, err |-> r.err,
              cnpj |-> Empty, fii |-> <<>>, io |-> r.io,
              before |-> [hasTbl |-> hasTbl, rows |-> rows]]
  /\ UNCHANGED <<db, pc, stream, sawTable, result>>

CallCNPJ(code) ==
  \E r \in CNPJ(db, hasTbl, rows, code) :
    /\ last' = [op |-> "CNPJ", stream |-> Malformed, code |-> code, err |-> r.err,
                cnpj |-> r.cnpj, fii |-> <<>>, io |-> r.io,
                before |-> [hasTbl |-> hasTbl, rows |-> rows]]
    /\ UNCHANGED <<db, hasTbl, rows, pc, stream, sawTable, result>>

CallSelectFIIDetails(code) ==
  \E r \in SelectFIIDetails(db, hasTbl, rows, code) :
    /\ hasTbl' = r.hasTbl
    /\ last' = [op |-> "SelectFIIDetails", stream |-> Malformed, code |-> code,
                err |-> r.err, cnpj |-> Empty, fii |-> r.fii, io |-> r.io,
                before |-> [hasTbl |-> hasTbl, rows |-> rows]]
    /\ UNCHANGED <<db, rows, pc, stream, sawTable, result>>

Next ==
  \/ \E s \in Streams : CallStoreFIIDetails(s)
  \/ \E code \in Codes : CallCNPJ(code)
  \/ \E code \in Codes : CallSelectFIIDetails(code)

Spec == Init /\ [][Next]_vars

(***************************************************************************)
(* Concurrent first-time callers of StoreFIIDetails on one set handle.     *)
(* Each statement on the handle is one step; the engine runs a statement   *)
(* atomically.  Parsing, trimming and validation touch only the caller's   *)
(* own data and go with the insert step.                                   *)
(***************************************************************************)
InitConc ==
  /\ db = "set"
  /\ hasTbl = FALSE
  /\ rows = <<>>
  /\ last = NoCall
  /\ pc = [p \in Procs |-> "check"]
  /\ stream \in [Procs -> ConcStreams]
  /\ sawTable = [p \in Procs |-> FALSE]
  /\ result = [p \in Procs |-> ErrNil]

\* if !hasTable(fii.db, "fii_details")
CheckTable(p) ==
  /\ pc[p] = "check"
  /\ sawTable' = [sawTable EXCEPT ![p] = hasTable(hasTbl)]
  /\ pc' = [pc EXCEPT ![p] = IF hasTable(hasTbl) THEN "store" ELSE "create"]
  /\ UNCHANGED <<db, hasTbl, rows, last, stream, result>>

\* if err := createTable(fii.db, "fii_details"); err != nil { return err }
CreateTable(p) ==
  /\ pc[p] = "create"
  /\ LET c == createTable(hasTbl) IN
       /\ hasTbl' = c.exists
       /\ result' = [result EXCEPT ![p] = c.err]
       /\ pc' = [pc EXCEPT ![p] = IF c.err # ErrNil THEN "done" ELSE "store"]
  /\ UNCHANGED <<db, rows, last, stream, sawTable>>

\* the rest of StoreFIIDetails
ParseAndInsert(p) ==
  /\ pc[p] = "store"
  /\ LET tl == StoreTail(hasTbl, rows, stream[p]) IN
       /\ rows' = tl.rows
       /\ result' = [result EXCEPT ![p] = tl.err]
  /\ pc' = [pc EXCEPT ![p] = "done"]
  /\ UNCHANGED <<db, hasTbl, last, stream, sawTable>>

NextConc == \E p \in Procs : CheckTable(p) \/ CreateTable(p) \/ ParseAndInsert(p)

SpecConc == InitConc /\ [][NextConc]_vars

(***************************************************************************)
(* Properties                                                              *)
(***************************************************************************)
\* a payload StoreFIIDetails accepts: it parses and its CNPJ is not blank
ValidStream(s) == s.wellFormed /\ TrimSpace(s.cnpj) # Empty

RowsWithCNPJ(t, c) == {i \in DOMAIN t : t[i].cnpj = c}

IsLookup == last.op \in {"CNPJ", "SelectFIIDetails"}

\* a row answers a code: a 4-byte code by its acronym, a 6-byte code by its
\* trading code
RowMatches(r, code) ==
  \/ ByteLen(code) = 4 /\ r.acronym = code
  \/ ByteLen(code) = 6 /\ r.trading_code = code

Project(r) == [CNPJ |-> r.cnpj, Acronym |-> r.acronym, TradingCode |-> r.trading_code]

IsPrefix(a, b) == Len(a) <= Len(b) /\ SubSeq(b, 1, Len(a)) = a

\* C1: the table holds at most one row per CNPJ, and a StoreFIIDetails call
\* on a set handle with a valid payload returns nil and leaves exactly one
\* row for the payload's CNPJ, also when that CNPJ was stored before.
C1_OneRowPerCNPJ ==
  /\ \A i, j \in DOMAIN rows : rows[i].cnpj = rows[j].cnpj => i = j
  /\ (last.op = "StoreFIIDetails" /\ db = "set" /\ ValidStream(last.stream)) =>
       /\ last.err = ErrNil
       /\ Cardinality(RowsWithCNPJ(rows, TrimSpace(last.stream.cnpj))) = 1

\* a second store of a CNPJ that was already there returned nil
C1_Witness ==
  /\ last.op = "StoreFIIDetails" /\ db = "set" /\ ValidStream(last.stream)
  /\ RowsWithCNPJ(last.before.rows, TrimSpace(last.stream.cnpj)) # {}
  /\ last.err = ErrNil
  /\ Len(rows) = 2

\* C2: no step removes or changes a stored row: every row of the table is
\* in the table, with the same acronym and trading code, after the step.
C2_RowsNeverMutated ==
  [][\A i \in DOMAIN rows : \E j \in DOMAIN rows' : rows'[j] = rows[i]]_vars

\* a store of a known CNPJ with another acronym was ignored
C2_Witness ==
  /\ last.op = "StoreFIIDetails" /\ ValidStream(last.stream) /\ last.err = ErrNil
  /\ \E i \in DOMAIN rows :
       /\ rows[i].cnpj = TrimSpace(last.stream.cnpj)
       /\ rows[i].acronym # TrimSpace(last.stream.acronym)
       /\ rows[i].trading_code # TrimSpace(last.stream.tradingCode)
       /\ rows[i] \in {last.before.rows[k] : k \in DOMAIN last.before.rows}

\* C3 as claimed: for every stored row whose acronym has length 4 and whose
\* trading code has length 6, CNPJ(acronym) and CNPJ(trading code) return
\* the row's cnpj and nil, whatever else is stored.  Length is taken as the
\* code takes it, len() in bytes, so that rows CNPJ rejects by their length
\* do not count against the claim.
C3_RoundTripEveryRow ==
  \A i \in DOMAIN rows :
    (/\ last.op = "CNPJ"
     /\ ByteLen(rows[i].acronym) = 4 /\ ByteLen(rows[i].trading_code) = 6
     /\ last.code \in {rows[i].acronym, rows[i].trading_code})
    => (last.cnpj = rows[i].cnpj /\ last.err = ErrNil)

\* C3 amended: for every stored row whose acronym is 4 bytes and whose
\* trading code is 6 bytes long, CNPJ(acronym) returns the row's cnpj and nil
\* when no other row has that acronym, and CNPJ(trading code) does when no
\* other row has that trading code; in any case the cnpj returned is that of
\* a row with that acronym (trading code).
C3_RoundTripUnique ==
  \A i \in DOMAIN rows :
    (/\ last.op = "CNPJ"
     /\ ByteLen(rows[i].acronym) = 4 /\ ByteLen(rows[i].trading_code) = 6)
    => /\ last.code = rows[i].acronym =>
            /\ last.err = ErrNil
            /\ \E k \in DOMAIN rows :
                 rows[k].acronym = last.code /\ rows[k].cnpj = last.cnpj
            /\ (\A k \in DOMAIN rows : rows[k].acronym = last.code => k = i)
                 => last.cnpj = rows[i].cnpj
       /\ last.code = rows[i].trading_code =>
            /\ last.err = ErrNil
            /\ \E k \in DOMAIN rows :
                 rows[k].trading_code = last.code /\ rows[k].cnpj = last.cnpj
            /\ (\A k \in DOMAIN rows : rows[k].trading_code = last.code => k = i)
                 => last.cnpj = rows[i].cnpj

\* a row was resolved by its trading code with another row in the table
C3_Witness ==
  /\ last.op = "CNPJ" /\ Len(rows) = 2
  /\ \E i \in DOMAIN rows :
       /\ ByteLen(rows[i].acronym) = 4 /\ ByteLen(rows[i].trading_code) = 6
       /\ last.code = rows[i].trading_code
       /\ \A k \in DOMAIN rows : rows[k].trading_code = last.code => k = i
       /\ last.cnpj = rows[i].cnpj /\ last.err = ErrNil

\* C4: on a populated table, a lookup with a code of 4 or 6 bytes that no
\* row answers gives ("", nil) from CNPJ and (nil, sql.ErrNoRows) from
\* SelectFIIDetails; whatever a lookup returns comes from a row that answers
\* the code.
C4_NotFoundAsymmetry ==
  /\ (/\ IsLookup /\ db = "set" /\ hasTbl /\ rows # <<>>
      /\ ByteLen(last.code) \in {4, 6}
      /\ \A i \in DOMAIN rows : ~RowMatches(rows[i], last.code))
     => /\ last.op = "CNPJ" => (last.cnpj = Empty /\ last.err = ErrNil)
        /\ last.op = "SelectFIIDetails" => (last.fii = <<>> /\ last.err = ErrNoRows)
  /\ (last.op = "CNPJ" /\ last.cnpj # Empty) =>
       \E i \in DOMAIN rows : RowMatches(rows[i], last.code) /\ rows[i].cnpj = last.cnpj
  /\ (last.op = "SelectFIIDetails" /\ last.fii # <<>>) =>
       \E i \in DOMAIN rows :
         RowMatches(rows[i], last.code) /\ last.fii = <<Project(rows[i])>>

\* SelectFIIDetails did not find an unknown 6-byte code in a populated table
C4_Witness ==
  /\ last.op = "SelectFIIDetails" /\ db = "set" /\ rows # <<>>
  /\ last.code = ABCF11
  /\ last.fii = <<>> /\ last.err = ErrNoRows

\* C5: on a set handle, a payload that parses and whose CNPJ is empty or
\* blank makes StoreFIIDetails fail with the wrong-CNPJ error and insert
\* nothing; every stored row has a non-empty CNPJ, the three fields carry no
\* leading or trailing blanks, and a row a call inserts is the payload's
\* three fields trimmed.
C5_BlankCNPJRejected ==
  /\ (/\ last.op = "StoreFIIDetails" /\ db = "set"
      /\ last.stream.wellFormed /\ TrimSpace(last.stream.cnpj) = Empty)
     => /\ last.err = ErrWrongCNPJ(Empty)
        /\ rows = last.before.rows
        /\ \A k \in DOMAIN last.io : last.io[k] # "exec"
  /\ \A i \in DOMAIN rows :
       /\ rows[i].cnpj # Empty
       /\ rows[i].cnpj = TrimSpace(rows[i].cnpj)
       /\ rows[i].acronym = TrimSpace(rows[i].acronym)
       /\ rows[i].trading_code = TrimSpace(rows[i].trading_code)
  /\ (last.op = "StoreFIIDetails" /\ Len(rows) > Len(last.before.rows)) =>
       rows[Len(rows)] = [cnpj |-> TrimSpace(last.stream.cnpj),
                          acronym |-> TrimSpace(last.stream.acronym),
                          trading_code |-> TrimSpace(last.stream.tradingCode)]

\* a blank CNPJ was rejected on a table that holds a row stored from a
\* padded payload
C5_Witness ==
  /\ last.op = "StoreFIIDetails" /\ db = "set"
  /\ last.stream.wellFormed /\ last.stream.cnpj = <<" ", " ">>
  /\ last.err = ErrWrongCNPJ(Empty)
  /\ \E i \in DOMAIN rows : rows[i].acronym = ABCD /\ rows[i].trading_code = ABCE11

\* C6: with a nil handle every call returns ErrDBUnset and makes no call on
\* the handle, whatever its input; the store is never touched.
C6_UnsetHandle ==
  db = "nil" =>
    /\ last.op # "none" => (last.err = ErrDBUnset /\ last.io = <<>>)
    /\ last.cnpj = Empty /\ last.fii = <<>>
    /\ ~hasTbl /\ rows = <<>>

\* a lookup with a code of invalid length on a nil handle
C6_Witness ==
  /\ db = "nil" /\ last.op = "CNPJ" /\ last.code = ABCD1
  /\ last.err = ErrDBUnset

\* C7: on a set handle, a lookup with a code that is neither 4 nor 6 bytes
\* long fails with the invalid-code error naming the code and issues no
\* query; a 4-byte code is answered only from a row with that acronym, a
\* 6-byte code only from a row with that trading code.
C7_CodeLengthDispatch ==
  /\ (IsLookup /\ db = "set" /\ ByteLen(last.code) \notin {4, 6}) =>
       /\ last.err = ErrInvalidCode(last.code)
       /\ last.io = <<>>
       /\ last.cnpj = Empty /\ last.fii = <<>>
  /\ (IsLookup /\ db = "set" /\ ByteLen(last.code) \in {4, 6}) => last.io = <<"query">>
  /\ (IsLookup /\ (last.cnpj # Empty \/ last.fii # <<>>)) =>
       \E i \in DOMAIN rows :
         /\ ByteLen(last.code) = 4 => rows[i].acronym = last.code
         /\ ByteLen(last.code) = 6 => rows[i].trading_code = last.code
         /\ last.op = "CNPJ" => last.cnpj = rows[i].cnpj
         /\ last.op = "SelectFIIDetails" => last.fii = <<Project(rows[i])>>

\* a 4-byte code that is some row's trading code and no row's acronym was
\* not found
C7_Witness ==
  /\ last.op = "SelectFIIDetails" /\ db = "set" /\ last.code = ABCD
  /\ \E i \in DOMAIN rows : rows[i].trading_code = ABCD
  /\ \A i \in DOMAIN rows : rows[i].acronym # ABCD
  /\ last.err = ErrNoRows /\ last.fii = <<>>

C9_TableFirstOneRowAtMost ==
  /\ (last.op = "StoreFIIDetails" /\ db = "set") => hasTbl
  /\ (last.op = "StoreFIIDetails" /\ db = "set" /\ ~ValidStream(last.stream)) =>
       /\ last.err = IF last.stream.wellFormed THEN ErrWrongCNPJ(Empty) ELSE ErrUnmarshal
       /\ rows = last.before.rows
       /\ last.io = IF last.before.hasTbl THEN <<"hasTable">>
                    ELSE <<"hasTable", "createTable">>
  /\ IsPrefix(last.before.rows, rows)
  /\ Len(rows) <= Len(last.before.rows) + 1

\* a payload that does not parse was the first call: it created the table
C9_Witness ==
  /\ last.op = "StoreFIIDetails" /\ db = "set"
  /\ last.err = ErrUnmarshal
  /\ ~last.before.hasTbl /\ hasTbl /\ rows = <<>>

\* C10: a lookup leaves the rows and the existence of the table as they
\* were; with a set handle, a code of 4 or 6 bytes and no table it returns
\* the engine's error, not an empty result and not sql.ErrNoRows.
C10_LookupsReadOnly ==
  /\ IsLookup => (rows = last.before.rows /\ hasTbl = last.before.hasTbl)
  /\ (IsLookup /\ db = "set" /\ ~hasTbl /\ ByteLen(last.code) \in {4, 6}) =>
       /\ last.err = ErrNoSuchTable
       /\ last.cnpj = Empty /\ last.fii = <<>>

\* a lookup before any store
C10_Witness ==
  /\ last.op = "SelectFIIDetails" /\ db = "set" /\ ~hasTbl /\ last.code = ABCD
  /\ last.err = ErrNoSuchTable

====
